---- MODULE Spec2Model ----
(***************************************************************************)
(* Model of the audit-question analyzer: the upload handler of src/app.py  *)
(* (temp file, text extraction, LLM adapter, heuristic fallback, result    *)
(* aggregation), the Gemini adapter of src/llm_client.py and the helpers   *)
(* of src/analysis.py.                                                     *)
(*                                                                         *)
(* Python strings are sequences of one-character strings, so that strip,   *)
(* lower, substring tests and the regular expressions are computed and not *)
(* assumed.  The character "\n" is the newline.                            *)
(***************************************************************************)
EXTENDS Integers, Sequences, FiniteSets, TLC

\* ------------------------------------------------------------------------
\* Characters and strings
\* ------------------------------------------------------------------------

UpperChars == <<"A","B","C","D","E","F","G","H","I","J","K","L","M",
                "N","O","P","Q","R","S","T","U","V","W","X","Y","Z">>

LowerChars == <<"a","b","c","d","e","f","g","h","i","j","k","l","m",
                "n","o","p","q","r","s","t","u","v","w","x","y","z">>

IsUpper(c) == \E i \in DOMAIN UpperChars : UpperChars[i] = c

IsDigit(c) == c \in {"0","1","2","3","4","5","6","7","8","9"}

\* str.isspace for the characters of the model (\s of the re module)
IsSpace(c) == c \in {" ", "\n", "\t"}

\* str.lower on one character
LowerChar(c) ==
    IF IsUpper(c)
    THEN LowerChars[CHOOSE i \in DOMAIN UpperChars : UpperChars[i] = c]
    ELSE c

\* str.lower
Lower(s) == [i \in DOMAIN s |-> LowerChar(s[i])]

\* the least element of the set S of integers, d when S is empty
MinOr(S, d) == IF S = {} THEN d ELSE CHOOSE k \in S : \A j \in S : k <= j

\* the greatest element of the set S of integers, d when S is empty
MaxOr(S, d) == IF S = {} THEN d ELSE CHOOSE k \in S : \A j \in S : j <= k

\* s[lo..hi], the empty string when lo is 0
Slice(s, lo, hi) == IF lo = 0 THEN <<>> ELSE SubSeq(s, lo, hi)

\* str.strip: drop the leading and the trailing whitespace
Strip(s) ==
    Slice(s, MinOr({i \in DOMAIN s : ~IsSpace(s[i])}, 0),
             MaxOr({i \in DOMAIN s : ~IsSpace(s[i])}, 0))

\* s[i:i+len(w)] == w
StartsAt(s, w, i) ==
    /\ i >= 1
    /\ i + Len(w) - 1 <= Len(s)
    /\ \A k \in 1..Len(w) : s[i + k - 1] = w[k]

\* str.startswith
StartsWith(s, w) == StartsAt(s, w, 1)

\* the "in" operator on strings: w is a substring of s
Contains(s, w) == \E i \in 1..(Len(s) + 1) : StartsAt(s, w, i)

\* the index of the first "?" of s at or after i, Len(s)+1 when there is none
FirstQuestionMark(s, i) == MinOr({k \in i..Len(s) : s[k] = "?"}, Len(s) + 1)

\* the index of the first character of s at or after i that is not whitespace
SkipSpace(s, i) == MinOr({k \in i..Len(s) : ~IsSpace(s[k])}, Len(s) + 1)

\* the index of the first character of s at or after i that is not a digit
SkipDigits(s, i) == MinOr({k \in i..Len(s) : ~IsDigit(s[k])}, Len(s) + 1)

\* the index of the first newline or "?" of s at or after i
SkipLine(s, i) == MinOr({k \in i..Len(s) : s[k] \in {"\n", "?"}}, Len(s) + 1)

\* ------------------------------------------------------------------------
\* extract_questions_from_text: the three pattern families
\* ------------------------------------------------------------------------

\* the outcome of a pattern tried at an index: no match, or the group
\* s[gs..ge] of a match that ends at ge
NoMatch == [ok |-> FALSE, gs |-> 0, ge |-> 0]

\* the group from gs to the "?" at m, when there is a "?" at m
GroupTo(s, gs, m) ==
    IF m <= Len(s) /\ s[m] = "?" THEN [ok |-> TRUE, gs |-> gs, ge |-> m] ELSE NoMatch

\* [\.\)]\s*[^\n?]*\? after the digits s[j..k-1]
NumberedMark(s, j, k) ==
    IF k = j \/ k > Len(s) THEN NoMatch
    ELSE IF s[k] \notin {".", ")"} THEN NoMatch
    ELSE GroupTo(s, j, SkipLine(s, SkipSpace(s, k + 1)))

\* (\d+[\.\)]\s*[^\n?]*\?) at j, the first index after the whitespace
NumberedGroup(s, j) == NumberedMark(s, j, SkipDigits(s, j))

\* (?:^|\n)\s*(\d+[\.\)]\s*[^\n?]*\?) with re.MULTILINE, tried at index i
MatchNumbered(s, i) ==
    IF i = 1 \/ s[i - 1] = "\n" \/ s[i] = "\n"
    THEN NumberedGroup(s, SkipSpace(s, i))
    ELSE NoMatch

\* ([A-Z][^?]*\?) tried at index i
MatchGeneric(s, i) ==
    IF IsUpper(s[i]) THEN GroupTo(s, i, FirstQuestionMark(s, i + 1)) ELSE NoMatch

\* (<lead>[^?]*\?) with re.IGNORECASE tried at index i
MatchLead(lead, s, i) ==
    IF /\ i + Len(lead) - 1 <= Len(s)
       /\ \A k \in 1..Len(lead) : LowerChar(s[i + k - 1]) = LowerChar(lead[k])
    THEN GroupTo(s, i, FirstQuestionMark(s, i + Len(lead)))
    ELSE NoMatch

\* the patterns of the extractor: the numbered one, the generic one, a lead
MatchAt(p, s, i) ==
    CASE p.kind = "numbered" -> MatchNumbered(s, i)
      [] p.kind = "generic"  -> MatchGeneric(s, i)
      [] p.kind = "lead"     -> MatchLead(p.lead, s, i)

\* re.findall of a one-group pattern: the groups of the non-overlapping
\* matches, scanning from the left; the scan takes the leftmost index at
\* or after i where the pattern matches and goes on after that match
RECURSIVE FindAllFrom(_, _, _)

\* the group of the match m and the groups after it
GroupAndRest(p, s, m) == <<SubSeq(s, m.gs, m.ge)>> \o FindAllFrom(p, s, m.ge + 1)

\* the groups from the leftmost match, at index first (0: there is none)
FindAllAt(p, s, first) ==
    IF first = 0 THEN <<>> ELSE GroupAndRest(p, s, MatchAt(p, s, first))

FindAllFrom(p, s, i) ==
    FindAllAt(p, s, MinOr({j \in i..Len(s) : MatchAt(p, s, j).ok}, 0))

FindAll(p, s) == FindAllFrom(p, s, 1)

\* audit_patterns, in the order of the list
AuditLeads ==
    << <<"D","o","e","s"," ">>,
       <<"I","s"," ","t","h","e","r","e"," ">>,
       <<"A","r","e"," ">>,
       <<"H","a","s"," ">>,
       <<"H","a","v","e"," ">>,
       <<"W","a","s"," ">>,
       <<"W","e","r","e"," ">> >>

\* the patterns in the order the extractor applies them
Patterns ==
    << [kind |-> "numbered", lead |-> <<>>], [kind |-> "generic", lead |-> <<>>] >>
    \o [i \in DOMAIN AuditLeads |-> [kind |-> "lead", lead |-> AuditLeads[i]]]

\* questions.extend(matches) for the first n patterns in turn
RECURSIVE Candidates(_, _)
Candidates(s, n) ==
    IF n = 0 THEN <<>> ELSE Candidates(s, n - 1) \o FindAll(Patterns[n], s)

\* "Filter out very short matches": len(q) > MinQuestionLen
MinQuestionLen == 10

\* a slip: the candidate is kept without the test "q not in seen"
KeepQuestion_noseen(cleaned, q) ==
    IF Len(q) > MinQuestionLen THEN Append(cleaned, q) ELSE cleaned

\* "if len(q) > 10 and q not in seen": the stripped candidate q is added
\* to the cleaned questions or dropped
KeepQuestion(cleaned, q) ==
    IF Len(q) > MinQuestionLen /\ \A k \in DOMAIN cleaned : cleaned[k] # q
    THEN Append(cleaned, q)
    ELSE cleaned

\* the clean-and-deduplicate loop over the candidates
RECURSIVE CleanQuestions(_)
CleanQuestions(qs) ==
    IF qs = <<>> THEN <<>>
    ELSE KeepQuestion(CleanQuestions(SubSeq(qs, 1, Len(qs) - 1)), Strip(qs[Len(qs)]))

extract_questions_from_text(text) == CleanQuestions(Candidates(text, Len(Patterns)))

\* ------------------------------------------------------------------------
\* analyze_requirement (the keyword classifier) and the normalisation
\* helpers of src/analysis.py
\* ------------------------------------------------------------------------

positive_keywords ==
    << <<"y","e","s">>,
       <<"i","m","p","l","e","m","e","n","t","e","d">>,
       <<"c","o","m","p","l","i","a","n","t">>,
       <<"m","e","e","t","s">>,
       <<"s","a","t","i","s","f","i","e","s">>,
       <<"f","u","l","f","i","l","l","s">> >>

negative_keywords ==
    << <<"n","o">>,
       <<"m","i","s","s","i","n","g">>,
       <<"n","o","n","-","c","o","m","p","l","i","a","n","t">>,
       <<"f","a","i","l","s">>,
       <<"v","i","o","l","a","t","e","s">>,
       <<"l","a","c","k","s">> >>

\* any(keyword in question_lower for keyword in keywords)
AnyKeyword(question_lower, keywords) ==
    \E k \in DOMAIN keywords : Contains(question_lower, keywords[k])

\* Python values: None, bool, number, str, list, dict.  Every value is a
\* record [t, v]; t is the type.  A number is held in tenths (0.7 is 7).
\* A str is a sequence of characters ("str"), a fixed message of the
\* program kept whole ("lit"), or a text of tokens ("text", see below).
PyNone    == [t |-> "none", v |-> 0]
PyBool(b) == [t |-> "bool", v |-> b]
PyNum(n)  == [t |-> "num",  v |-> n]
PyStr(s)  == [t |-> "str",  v |-> s]
PyLit(m)  == [t |-> "lit",  v |-> m]
PyText(k) == [t |-> "text", v |-> k]
PyList(l) == [t |-> "list", v |-> l]
PyDict(d) == [t |-> "dict", v |-> d]

PyTrue  == PyBool(TRUE)
PyFalse == PyBool(FALSE)

IsStr(x) == x.t \in {"str", "lit", "text"}

\* bool(x): the truth value Python gives x
Truthy(x) ==
    CASE x.t = "none" -> FALSE
      [] x.t = "bool" -> x.v
      [] x.t = "num"  -> x.v # 0
      [] x.t = "str"  -> x.v # <<>>
      [] x.t = "lit"  -> x.v # ""
      [] x.t = "text" -> x.v # <<>>
      [] x.t = "list" -> x.v # <<>>
      [] x.t = "dict" -> DOMAIN x.v # {}

\* the three fixed reasoning messages of analyze_requirement
ReasonPositive ==
    PyLit("Question contains positive indicators suggesting requirement may be met.")
ReasonNegative ==
    PyLit("Question contains negative indicators suggesting requirement may not be met.")
ReasonUnknown ==
    PyLit("Cannot determine requirement status from question text alone. Requires evidence review.")

\* a slip: a positive keyword decides before the negative ones are looked at
Verdict_positive_first(has_positive, has_negative) ==
    IF has_positive
    THEN [requirement_met |-> PyTrue, confidence |-> 7, reasoning |-> ReasonPositive]
    ELSE IF has_negative
    THEN [requirement_met |-> PyFalse, confidence |-> 7, reasoning |-> ReasonNegative]
    ELSE [requirement_met |-> PyNone, confidence |-> 3, reasoning |-> ReasonUnknown]

\* the decision on has_positive and has_negative: requirement_met,
\* confidence (tenths), reasoning
Verdict(has_positive, has_negative) ==
    IF has_positive /\ ~has_negative
    THEN [requirement_met |-> PyTrue, confidence |-> 7, reasoning |-> ReasonPositive]
    ELSE IF has_negative
    THEN [requirement_met |-> PyFalse, confidence |-> 7, reasoning |-> ReasonNegative]
    ELSE [requirement_met |-> PyNone, confidence |-> 3, reasoning |-> ReasonUnknown]

\* analyze_requirement(question)
analyze_requirement(question) ==
    Verdict(AnyKeyword(Lower(question), positive_keywords),
            AnyKeyword(Lower(question), negative_keywords))

\* the dict of analyze_requirement of analysis.py: the same decision, with
\* "answer": None and "evidence": None
WithoutAnswer(analysis) ==
    [requirement_met |-> analysis.requirement_met, confidence |-> analysis.confidence,
     reasoning |-> analysis.reasoning, answer |-> PyNone, evidence |-> PyNone]

\* analyze_requirement(question) of analysis.py
analysis_analyze_requirement(question) == WithoutAnswer(analyze_requirement(question))

TrueWords ==
    { <<"t","r","u","e">>, <<"y","e","s">>, <<"y">>, <<"m","e","t">>,
      <<"c","o","m","p","l","i","a","n","t">>,
      <<"s","a","t","i","s","f","i","e","d">>,
      <<"f","u","l","f","i","l","l","e","d">> }

FalseWords ==
    { <<"f","a","l","s","e">>, <<"n","o">>, <<"n">>, <<"n","o","t"," ","m","e","t">>,
      <<"n","o","n","-","c","o","m","p","l","i","a","n","t">>,
      <<"m","i","s","s","i","n","g">>, <<"f","a","i","l","s">> }

\* the verdict of a stripped, lower-cased string
WordVerdict(lowered) ==
    IF lowered \in TrueWords THEN PyTrue
    ELSE IF lowered \in FalseWords THEN PyFalse
    ELSE PyNone

\* _normalize_bool(value): PyTrue, PyFalse or PyNone
normalize_bool(value) ==
    IF value.t = "bool" THEN value
    ELSE IF value.t = "str" THEN WordVerdict(Lower(Strip(value.v)))
    ELSE PyNone

\* "if normalized is not None: return normalized" and the answer otherwise
DefiniteOr(normalized, answer_value) ==
    IF normalized.t # "none" THEN normalized ELSE normalize_bool(answer_value)

\* _derive_requirement_met(answer_value, requirement_value)
derive_requirement_met(answer_value, requirement_value) ==
    DefiniteOr(normalize_bool(requirement_value), answer_value)

\* ------------------------------------------------------------------------
\* Model output and response bodies: json.loads and _extract_json_from_text
\* ------------------------------------------------------------------------

\* A text (the body of a response, the text content of a candidate) is a
\* sequence of tokens: whitespace, prose without braces, a stray "{" or "}",
\* or the serialisation of a JSON value.  A serialised value between other
\* tokens is an object or holds no brace.
TokWs      == [k |-> "ws",     j |-> PyNone]
TokProse   == [k |-> "prose",  j |-> PyNone]
TokLBrace  == [k |-> "lbrace", j |-> PyNone]
TokRBrace  == [k |-> "rbrace", j |-> PyNone]
TokJson(x) == [k |-> "json",   j |-> x]

\* str.strip on a text
StripText(toks) ==
    Slice(toks, MinOr({i \in DOMAIN toks : toks[i].k # "ws"}, 0),
                MaxOr({i \in DOMAIN toks : toks[i].k # "ws"}, 0))

\* the outcome of an expression: the exception it raises (exc), or "" and
\* its value
Ok(x)      == [exc |-> "", val |-> x]
Raise(exc) == [exc |-> exc, val |-> PyNone]

\* a stripped text is a JSON document when it is one serialised value
JsonDocument(body) ==
    IF Len(body) = 1 /\ body[1].k = "json" THEN Ok(body[1].j) ELSE Raise("JSONDecodeError")

\* json.loads; whitespace around the document is allowed
json_loads(toks) == JsonDocument(StripText(toks))

HasOpenBrace(tok)  == tok.k = "lbrace" \/ (tok.k = "json" /\ tok.j.t = "dict")
HasCloseBrace(tok) == tok.k = "rbrace" \/ (tok.k = "json" /\ tok.j.t = "dict")

\* the value of a parse, None when it failed
ValueOrNone(parsed) == IF parsed.exc = "" THEN parsed.val ELSE PyNone

\* text[start : end + 1] parsed, for start the first "{" and end the last
\* "}" (0: there is none)
ParseBetween(text, start, end) ==
    IF start = 0 \/ end = 0 \/ end < start THEN PyNone
    ELSE ValueOrNone(json_loads(SubSeq(text, start, end)))

\* _extract_json_from_text on the stripped text
ExtractStripped(text) ==
    IF text = <<>> THEN PyNone
    ELSE IF json_loads(text).exc = "" THEN json_loads(text).val
    ELSE ParseBetween(text, MinOr({i \in DOMAIN text : HasOpenBrace(text[i])}, 0),
                            MaxOr({i \in DOMAIN text : HasCloseBrace(text[i])}, 0))

\* _extract_json_from_text(text): the parsed value, PyNone for None
extract_json_from_text(toks) == ExtractStripped(StripText(toks))

\* a subscript: a dict key or an integer index
Key(s)   == [s |-> s, i |-> -1]
Index(i) == [s |-> "", i |-> i]

\* x[key]: the value, or KeyError, IndexError, TypeError
Subscript(x, key) ==
    CASE x.t = "dict" ->
            IF key.i = -1 /\ key.s \in DOMAIN x.v THEN Ok(x.v[key.s]) ELSE Raise("KeyError")
      [] x.t = "list" ->
            IF key.i = -1 THEN Raise("TypeError")
            ELSE IF key.i + 1 \in DOMAIN x.v THEN Ok(x.v[key.i + 1])
            ELSE Raise("IndexError")
      [] x.t = "str" ->
            IF key.i = -1 THEN Raise("TypeError")
            ELSE IF key.i + 1 \in DOMAIN x.v THEN Ok(PyStr(<<x.v[key.i + 1]>>))
            ELSE Raise("IndexError")
      [] x.t \in {"none", "bool", "num"} -> Raise("TypeError")

\* x[path[1]][path[2]]...: the first exception ends the evaluation
RECURSIVE SubscriptPath(_, _)

\* the rest of the path on the outcome r of its first subscript
SubscriptRest(r, path) == IF r.exc # "" THEN r ELSE SubscriptPath(r.val, path)

SubscriptPath(x, path) ==
    IF path = <<>> THEN Ok(x) ELSE SubscriptRest(Subscript(x, Head(path)), Tail(path))

\* the characters of the key "questions", for the "in" test on a str
QuestionsKey == <<"q","u","e","s","t","i","o","n","s">>

\* "questions" in parsed: the truth value, or TypeError
InQuestions(parsed) ==
    CASE parsed.t = "dict" -> Ok(PyBool("questions" \in DOMAIN parsed.v))
      [] parsed.t = "list" ->
            Ok(PyBool(\E i \in DOMAIN parsed.v :
                          parsed.v[i].t = "str" /\ parsed.v[i].v = QuestionsKey))
      [] parsed.t = "str" -> Ok(PyBool(Contains(parsed.v, QuestionsKey)))
      [] parsed.t \in {"none", "bool", "num"} -> Raise("TypeError")

LLM_MAX_QUESTIONS == 200

\* questions[:LLM_MAX_QUESTIONS]
Truncate(l, n) == IF Len(l) <= n THEN l ELSE SubSeq(l, 1, n)

\* the outcome of an adapter: None, a list of items, or an exception that
\* escapes it
Unavailable   == [out |-> "none",  items |-> <<>>, exc |-> ""]
Listed(items) == [out |-> "list",  items |-> items, exc |-> ""]
Escapes(exc)  == [out |-> "raise", items |-> <<>>, exc |-> exc]

\* the exceptions of the adapters' except clause
Caught == {"URLError", "HTTPError", "KeyError", "JSONDecodeError"}

\* "questions = parsed["questions"]", "if not isinstance(questions, list)"
\* and "return questions[:LLM_MAX_QUESTIONS]"
ListOf(questions) ==
    IF questions.exc # "" THEN Escapes(questions.exc)
    ELSE IF questions.val.t # "list" THEN Unavailable
    ELSE Listed(Truncate(questions.val.v, LLM_MAX_QUESTIONS))

\* the second half of "if not parsed or "questions" not in parsed": has is
\* the outcome of the "in" test
HavingQuestions(parsed, has) ==
    IF has.exc # "" THEN Escapes(has.exc)
    ELSE IF ~has.val.v THEN Unavailable
    ELSE ListOf(Subscript(parsed, Key("questions")))

\* from the parsed content to the returned list
QuestionsOf(parsed) ==
    IF ~Truthy(parsed) THEN Unavailable ELSE HavingQuestions(parsed, InQuestions(parsed))

\* what the try block does with an exception: the listed ones give None
Except(outcome) ==
    IF outcome.out = "raise" /\ outcome.exc \in Caught THEN Unavailable ELSE outcome

\* response_json[...][0]...: the content of the first candidate
ContentAt(response_json, path) ==
    IF response_json.exc # "" THEN response_json
    ELSE SubscriptPath(response_json.val, path)

\* The reply to an outbound request: urlopen or read raising (kind is the
\* exception: URLError, HTTPError, TimeoutError), a body that is not
\* UTF-8 (UnicodeDecodeError), or a body (kind "body").
\* The try block of the adapters up to the content of the first candidate.
ContentOf(reply, path) ==
    IF reply.kind # "body" THEN Raise(reply.kind)
    ELSE ContentAt(json_loads(reply.body), path)

GeminiPath ==
    <<Key("candidates"), Index(0), Key("content"), Key("parts"), Index(0), Key("text")>>

OpenAIPath == <<Key("choices"), Index(0), Key("message"), Key("content")>>

\* _extract_json_from_text(content) and the lines after it in _call_gemini
GeminiParsed(content) ==
    IF content.exc # "" THEN Escapes(content.exc)
    ELSE IF ~IsStr(content.val) THEN Escapes("AttributeError")
    ELSE QuestionsOf(extract_json_from_text(content.val.v))

\* _call_gemini: the try block on the reply of the backend
call_gemini(reply) == Except(GeminiParsed(ContentOf(reply, GeminiPath)))

\* len(content) for the debug log, _extract_json_from_text(content) and
\* the lines after it in llm_extract_and_analyze of app.py
OpenAIParsed(content) ==
    IF content.exc # "" THEN Escapes(content.exc)
    ELSE IF content.val.t \in {"none", "bool", "num"} THEN Escapes("TypeError")
    ELSE IF ~IsStr(content.val) THEN Escapes("AttributeError")
    ELSE QuestionsOf(extract_json_from_text(content.val.v))

\* llm_extract_and_analyze of app.py after the key test: the try block on
\* the reply of the backend
openai_request(reply) == Except(OpenAIParsed(ContentOf(reply, OpenAIPath)))

\* ------------------------------------------------------------------------
\* upload_pdf of src/app.py: from the extracted text to the response
\* ------------------------------------------------------------------------

\* item.get(key), item.get(key, default) on a dict
Get(item, key, default) == IF key \in DOMAIN item.v THEN item.v[key] ELSE default

\* the strings a bool field accepts for True and for False (lower-cased)
BoolTrueWords  == { <<"1">>, <<"o","n">>, <<"t">>, <<"t","r","u","e">>,
                    <<"y">>, <<"y","e","s">> }
BoolFalseWords == { <<"0">>, <<"o","f","f">>, <<"f">>, <<"f","a","l","s","e">>,
                    <<"n">>, <<"n","o">> }

\* the validation of QuestionResult.requirement_met: Optional[bool]
ValidateOptionalBool(x) ==
    CASE x.t \in {"none", "bool"} -> Ok(x)
      [] x.t = "num" ->
            IF x.v = 0 THEN Ok(PyFalse)
            ELSE IF x.v = 10 THEN Ok(PyTrue)
            ELSE Raise("ValidationError")
      [] x.t = "str" ->
            IF Lower(x.v) \in BoolTrueWords THEN Ok(PyTrue)
            ELSE IF Lower(x.v) \in BoolFalseWords THEN Ok(PyFalse)
            ELSE Raise("ValidationError")
      [] x.t \in {"list", "dict"} -> Raise("ValidationError")

\* the validation of QuestionResult.reasoning: str
ValidateStr(x) ==
    CASE IsStr(x) -> Ok(x)
      [] x.t \in {"none", "list", "dict"} -> Raise("ValidationError")

\* the value of a digit character
DigitValue(c) == CHOOSE n \in 0..9 : <<"0","1","2","3","4","5","6","7","8","9">>[n + 1] = c

\* the value of a string of digits
RECURSIVE DigitsValue(_)
DigitsValue(s) ==
    IF s = <<>> THEN 0
    ELSE 10 * DigitsValue(SubSeq(s, 1, Len(s) - 1)) + DigitValue(s[Len(s)])

\* the words float reads without a digit, lower-cased and without sign
SpecialFloats ==
    { <<"i","n","f">>, <<"i","n","f","i","n","i","t","y">>, <<"n","a","n">> }

\* a string without its leading sign
Unsigned(s) == IF s # <<>> /\ s[1] \in {"+", "-"} THEN Tail(s) ELSE s

\* float of a stripped string, in tenths: "d...d" and "d...d.d" are read;
\* a string without a digit that is no spelling of inf or nan is a
\* ValueError
FloatOfString(s) ==
    CASE s # <<>> /\ \A i \in DOMAIN s : IsDigit(s[i]) ->
            Ok(PyNum(10 * DigitsValue(s)))
      [] /\ Len(s) >= 3
         /\ s[Len(s) - 1] = "."
         /\ \A i \in DOMAIN s \ {Len(s) - 1} : IsDigit(s[i]) ->
            Ok(PyNum(10 * DigitsValue(SubSeq(s, 1, Len(s) - 2)) + DigitValue(s[Len(s)])))
      [] /\ \A i \in DOMAIN s : ~IsDigit(s[i])
         /\ Unsigned(Lower(s)) \notin SpecialFloats ->
            Raise("ValueError")

\* float(x), in tenths
float(x) ==
    CASE x.t = "num"  -> Ok(PyNum(x.v))
      [] x.t = "bool" -> Ok(PyNum(IF x.v THEN 10 ELSE 0))
      [] x.t \in {"none", "list", "dict"} -> Raise("TypeError")
      [] x.t = "str" -> FloatOfString(Strip(x.v))

\* the default of item.get("confidence", 0.3), in tenths
DefaultConfidence == 3

\* except (TypeError, ValueError): return default
DefaultOnError(coerced, default) ==
    IF coerced.exc \in {"TypeError", "ValueError"} THEN PyNum(default) ELSE coerced.val

\* _parse_confidence(value, default) of analysis.py, in tenths
parse_confidence(value, default) ==
    IF value.t = "none" THEN PyNum(default) ELSE DefaultOnError(float(value), default)

\* the default of item.get("reasoning", ...)
DefaultReasoning == PyLit("LLM analysis provided.")

\* a sequence built so far, or the exception that ended the loop
Built(val)  == [exc |-> "", val |-> val]
Failed(exc) == [exc |-> exc, val |-> <<>>]

\* one turn of the first loop over llm_questions: question_text is
\* item.get("question")
CollectItem(before, item, question_text) ==
    IF before.exc # "" THEN before
    ELSE IF item.t # "dict" THEN before
    ELSE IF ~Truthy(question_text) THEN before
    ELSE IF question_text.t # "str" THEN Failed("AttributeError")
    ELSE Built(Append(before.val, Strip(question_text.v)))

\* the first loop over llm_questions: the stripped question of every dict
\* item whose "question" is truthy; an exception when .strip() is not there
RECURSIVE CollectQuestions(_)
CollectQuestions(items) ==
    IF items = <<>> THEN Built(<<>>)
    ELSE CollectItem(CollectQuestions(SubSeq(items, 1, Len(items) - 1)),
                     items[Len(items)],
                     IF items[Len(items)].t = "dict"
                     THEN Get(items[Len(items)], "question", PyNone)
                     ELSE PyNone)

\* the record of the validated fields, or the first exception
Validated(question, m, c, r) ==
    IF c.exc # "" THEN Failed(c.exc)
    ELSE IF m.exc # "" THEN Failed(m.exc)
    ELSE IF r.exc # "" THEN Failed(r.exc)
    ELSE Built(<<[question |-> question, requirement_met |-> m.val,
                  confidence |-> c.val.v, reasoning |-> r.val]>>)

\* QuestionResult(question=..., requirement_met=..., confidence=float(...),
\* reasoning=...): the record, or the exception of float or of the validation
QuestionResult(question, requirement_met, confidence, reasoning) ==
    Validated(question, ValidateOptionalBool(requirement_met), float(confidence),
              ValidateStr(reasoning))

\* results.append(...) unless the construction raised
AppendResult(before, built) ==
    IF built.exc # "" THEN built ELSE Built(before.val \o built.val)

\* one turn of the second loop over llm_questions: question is
\* item.get("question", "")
BuildItem(before, item, question) ==
    IF before.exc # "" THEN before
    ELSE IF item.t # "dict" THEN before
    ELSE IF question.t # "str" THEN Failed("AttributeError")
    ELSE IF Strip(question.v) = <<>> THEN before
    ELSE AppendResult(before,
            QuestionResult(Strip(question.v),
                           Get(item, "requirement_met", PyNone),
                           Get(item, "confidence", PyNum(DefaultConfidence)),
                           Get(item, "reasoning", DefaultReasoning)))

\* the second loop over llm_questions: one QuestionResult for every dict
\* item whose stripped "question" is not empty
RECURSIVE LlmResults(_)
LlmResults(items) ==
    IF items = <<>> THEN Built(<<>>)
    ELSE BuildItem(LlmResults(SubSeq(items, 1, Len(items) - 1)),
                   items[Len(items)],
                   IF items[Len(items)].t = "dict"
                   THEN Get(items[Len(items)], "question", PyStr(<<>>))
                   ELSE PyNone)

\* the record of a question and its analysis
HeuristicResult(question, analysis) ==
    [question |-> question, requirement_met |-> analysis.requirement_met,
     confidence |-> analysis.confidence, reasoning |-> analysis.reasoning]

\* the loop over the extracted questions: analyze_requirement on each
HeuristicResults(questions) ==
    [i \in DOMAIN questions |->
        HeuristicResult(questions[i], analyze_requirement(questions[i]))]

\* sum(1 for r in results if r.requirement_met is True)
RECURSIVE CountMet(_)
CountMet(results) ==
    IF results = <<>> THEN 0
    ELSE (IF Head(results).requirement_met.t = "bool" /\ Head(results).requirement_met.v
          THEN 1 ELSE 0) + CountMet(Tail(results))

\* a plausible slip: "if not r.requirement_met" counts None as well
RECURSIVE CountNotMet_falsy(_)
CountNotMet_falsy(results) ==
    IF results = <<>> THEN 0
    ELSE (IF ~Truthy(Head(results).requirement_met) THEN 1 ELSE 0)
         + CountNotMet_falsy(Tail(results))

\* sum(1 for r in results if r.requirement_met is False)
RECURSIVE CountNotMet(_)
CountNotMet(results) ==
    IF results = <<>> THEN 0
    ELSE (IF Head(results).requirement_met.t = "bool" /\ ~Head(results).requirement_met.v
          THEN 1 ELSE 0) + CountNotMet(Tail(results))

\* a response: the status, the detail of an error and, for the 500 of the
\* except clause, the exception it reports; with status 200 the
\* AnalysisResponse
ErrorResponse(status, detail, cause) ==
    [status |-> status, detail |-> detail, cause |-> cause,
     questions |-> <<>>, total_questions |-> 0, met_count |-> 0, not_met_count |-> 0]

AnalysisResponse(results) ==
    [status |-> 200, detail |-> "", cause |-> "",
     questions |-> results, total_questions |-> Len(results),
     met_count |-> CountMet(results), not_met_count |-> CountNotMet(results)]

NoTextDetail      == "Could not extract text from PDF"
NoQuestionsDetail == "No questions found in PDF. Please ensure the document contains audit questions."
NotPdfDetail      == "File must be a PDF"
InternalDetail    == "Error processing PDF"

\* "except Exception as e: raise HTTPException(status_code=500, ...)": the
\* HTTPExceptions raised inside the try block are Exceptions and end here too
InternalError(cause) == ErrorResponse(500, InternalDetail, cause)

\* a slip: "if llm_questions:" takes an empty list for no answer
LlmUsed_truthy(llm) == llm.out = "list" /\ llm.items # <<>>

\* "llm_questions is not None"
LlmUsed(llm) == llm.out = "list"

\* what the handler did from line 296 on: the response, where it left the
\* try block (exit), whether extract_questions_from_text ran, and the
\* questions analyze_requirement was called on
Left(resp, exit, extractor, classified) ==
    [resp |-> resp, exit |-> exit, extractor |-> extractor, classified |-> classified]

\* lines 324-364: questions is the list of the first loop or of the
\* extractor, built the results of the second loop or of the classifier
Respond(llm, collected, built) ==
    IF collected.exc # ""
    THEN Left(InternalError(collected.exc), "collect_failed", ~LlmUsed(llm), <<>>)
    ELSE IF collected.val = <<>>
    THEN Left(InternalError(NoQuestionsDetail), "no_questions", ~LlmUsed(llm), <<>>)
    ELSE IF built.exc # ""
    THEN Left(InternalError(built.exc), "build_failed", ~LlmUsed(llm), <<>>)
    ELSE Left(AnalysisResponse(built.val), "returned", ~LlmUsed(llm),
              IF LlmUsed(llm) THEN <<>> ELSE collected.val)

\* lines 312-353 on the questions of the extractor
HeuristicPath(llm, questions) ==
    Respond(llm, Built(questions), Built(HeuristicResults(questions)))

\* Lines 296-364 on the extracted text and the outcome of the adapter (not
\* called when the text is empty)
Analyze(text, llm) ==
    IF Strip(text) = <<>>
    THEN Left(InternalError(NoTextDetail), "no_text", FALSE, <<>>)
    ELSE IF llm.out = "raise"
    THEN Left(InternalError(llm.exc), "adapter_raised", FALSE, <<>>)
    ELSE IF LlmUsed(llm)
    THEN Respond(llm, CollectQuestions(llm.items), LlmResults(llm.items))
    ELSE HeuristicPath(llm, extract_questions_from_text(text))

\* llm_extract_and_analyze of app.py: None without a key, else one request
app_llm_extract_and_analyze(has_key, reply) ==
    IF ~has_key THEN Unavailable ELSE openai_request(reply)

\* file.filename.endswith('.pdf')
IsPdfName(filename) ==
    /\ Len(filename) >= 4
    /\ SubSeq(filename, Len(filename) - 3, Len(filename)) = <<".","p","d","f">>

\* temp_path = f"temp_{file.filename}"
TempPath(filename) == <<"t","e","m","p","_">> \o filename

\* a slip: the file is written only when there is none at the path yet
WriteFile_keep(fs, path, contents, owner) ==
    IF path \in DOMAIN fs THEN fs
    ELSE [p \in DOMAIN fs \cup {path} |->
             IF p = path THEN [contents |-> contents, owner |-> owner] ELSE fs[p]]

\* open(temp_path, "wb") and f.write(contents): the file is created or
\* replaced; owner is the request that wrote it
WriteFile(fs, path, contents, owner) ==
    [p \in DOMAIN fs \cup {path} |->
        IF p = path THEN [contents |-> contents, owner |-> owner] ELSE fs[p]]

\* os.remove(temp_path)
RemoveFile(fs, path) == [p \in DOMAIN fs \ {path} |-> fs[p]]

\* The uploaded bytes: a PDF that pdfplumber opens (pdf) with the result of
\* extract_text() for each page, or bytes pdfplumber.open raises on.
\* text += page_text + "\n" when page_text is truthy
AddPage(text, page_text) ==
    IF Truthy(page_text) THEN text \o page_text.v \o <<"\n">> ELSE text

\* the text of the pages, in order
RECURSIVE ExtractText(_)
ExtractText(pages) ==
    IF pages = <<>> THEN <<>>
    ELSE AddPage(ExtractText(SubSeq(pages, 1, Len(pages) - 1)), pages[Len(pages)])

\* the adapter was not called
NotCalled == [out |-> "not_called", items |-> <<>>, exc |-> ""]

\* what the handler did: the files it left, the response, the outcome of
\* the adapter and what Analyze reports
Handled(fs, llm, done) ==
    [files |-> fs, resp |-> done.resp, exit |-> done.exit, adapter |-> llm,
     extractor |-> done.extractor, classified |-> done.classified]

\* lines 296-364 with the call of the adapter, on the extracted text
AnalyzeText(fs, text, has_key, reply) ==
    IF Strip(text) = <<>>
    THEN Handled(fs, NotCalled, Analyze(text, NotCalled))
    ELSE Handled(fs, app_llm_extract_and_analyze(has_key, reply),
                 Analyze(text, app_llm_extract_and_analyze(has_key, reply)))

\* lines 287-294: pdfplumber opens what is at temp_path; when it raises,
\* the file stays; else the text of the pages is taken and the file removed
OpenTemp(written, temp_path, has_key, reply) ==
    IF ~written[temp_path].contents.pdf
    THEN Handled(written, NotCalled,
                 Left(InternalError("PDFSyntaxError"), "open_failed", FALSE, <<>>))
    ELSE AnalyzeText(RemoveFile(written, temp_path),
                     ExtractText(written[temp_path].contents.pages), has_key, reply)

\* Lines 276-367 for the request r: the temp file is written, opened and,
\* when pdfplumber raised nothing, removed; then the text is analyzed
HandleUpload(fs, r, upload, has_key, reply) ==
    OpenTemp(WriteFile(fs, TempPath(upload.filename), upload.contents, r),
             TempPath(upload.filename), has_key, reply)

\* ------------------------------------------------------------------------
\* Inputs: file names, documents, replies of the backend, configurations
\* ------------------------------------------------------------------------

NameA     == <<"a",".","p","d","f">>
NameB     == <<"b",".","p","d","f">>
NameNotes == <<"n","o","t","e","s",".","t","x","t">>

\* "1. Is there a written policy? Yes, implemented fully.\n2. Does the team review it quarterly?"
TextScenarioA == <<"1","."," ","I","s"," ","t","h","e","r","e"," ","a"," ","w","r","i","t","t","e","n"," ","p","o","l","i","c","y","?"," ","Y","e","s",","," ","i","m","p","l","e","m","e","n","t","e","d"," ","f","u","l","l","y",".","\n","2","."," ","D","o","e","s"," ","t","h","e"," ","t","e","a","m"," ","r","e","v","i","e","w"," ","i","t"," ","q","u","a","r","t","e","r","l","y","?">>
\* "no question here"
TextNoQuestion == <<"n","o"," ","q","u","e","s","t","i","o","n"," ","h","e","r","e">>
\* "1. Is there a log?"
TextLogPage1 == <<"1","."," ","I","s"," ","t","h","e","r","e"," ","a"," ","l","o","g","?">>
\* "Ok? Were no logs kept?"
TextLogPage2 == <<"O","k","?"," ","W","e","r","e"," ","n","o"," ","l","o","g","s"," ","k","e","p","t","?">>

DocBroken     == [pdf |-> FALSE, pages |-> <<>>]
DocNoText     == [pdf |-> TRUE, pages |-> <<PyNone>>]
DocBlank      == [pdf |-> TRUE, pages |-> <<PyStr(<<" "," ">>)>>]
DocScenarioA  == [pdf |-> TRUE, pages |-> <<PyStr(TextScenarioA)>>]
DocNoQuestion == [pdf |-> TRUE, pages |-> <<PyStr(TextNoQuestion)>>]
DocLogs       == [pdf |-> TRUE, pages |-> <<PyStr(TextLogPage1), PyNone, PyStr(TextLogPage2)>>]

Filenames == {NameA, NameB, NameNotes}
Documents == {DocBroken, DocNoText, DocBlank, DocScenarioA, DocNoQuestion, DocLogs}

\* "Is access logged?", the same padded, "Are backups tested?"
QLogged       == <<"I","s"," ","a","c","c","e","s","s"," ","l","o","g","g","e","d","?">>
QLoggedPadded == <<" ","I","s"," ","a","c","c","e","s","s"," ","l","o","g","g","e","d","?"," ">>
QBackup       == <<"A","r","e"," ","b","a","c","k","u","p","s"," ","t","e","s","t","e","d","?">>

StrYes       == PyStr(<<"Y","e","s">>)
StrCompliant == PyStr(<<"c","o","m","p","l","i","a","n","t">>)
StrStated    == PyStr(<<"s","t","a","t","e","d">>)

\* {"question":"Is access logged?","answer":"Yes","requirement_met":null,
\*  "confidence":0.8,"reasoning":"stated"}
ItemScenarioD ==
    PyDict([question |-> PyStr(QLogged), answer |-> StrYes, requirement_met |-> PyNone,
            confidence |-> PyNum(8), reasoning |-> StrStated])

\* a record with a padded question and a definite verdict
ItemPadded ==
    PyDict([question |-> PyStr(QLoggedPadded), requirement_met |-> PyFalse,
            confidence |-> PyStr(<<"0",".","9">>), reasoning |-> StrStated])

\* a record whose verdict is the string "yes", with no confidence or reasoning
ItemYes == PyDict([question |-> PyStr(QBackup), requirement_met |-> PyStr(<<"y","e","s">>)])

\* a record whose verdict is the string "compliant"
ItemCompliant == PyDict([question |-> PyStr(QBackup), requirement_met |-> StrCompliant])

ItemBlank      == PyDict([question |-> PyStr(<<" "," "," ">>)])
ItemEmpty      == PyDict([question |-> PyStr(<<>>), requirement_met |-> PyTrue])
ItemNull       == PyDict([question |-> PyNone])
ItemNoQuestion == PyDict([answer |-> StrYes])
ItemNotDict    == PyStr(<<"j","u","n","k">>)

\* records whose confidence is null, no number ("not-a-number"), a list
StrNotANumber == PyStr(<<"n","o","t","-","a","-","n","u","m","b","e","r">>)
ItemConfNull  == PyDict([question |-> PyStr(QBackup), confidence |-> PyNone])
ItemConfWord  == PyDict([question |-> PyStr(QBackup), confidence |-> StrNotANumber])
ItemConfList  == PyDict([question |-> PyStr(QBackup), confidence |-> PyList(<<>>)])

\* the lists a backend puts under "questions"
ItemLists ==
    { <<>>,
      <<ItemScenarioD>>,
      <<ItemScenarioD, ItemPadded>>,
      <<ItemNotDict, ItemEmpty, ItemYes, ItemScenarioD>>,
      <<ItemYes, ItemPadded, ItemScenarioD>>,
      <<ItemCompliant>>,
      <<ItemBlank>>,
      <<ItemNoQuestion, ItemEmpty>>,
      <<ItemYes, ItemNull>>,
      <<ItemConfNull>>,
      <<ItemScenarioD, ItemConfWord>>,
      <<ItemConfList>> }

Questions(items) == PyDict([questions |-> PyList(items)])

\* the text content of the first candidate
Contents ==
    {PyText(<<TokJson(Questions(items))>>) : items \in ItemLists}
    \cup
    { PyText(<<TokProse, TokWs, TokJson(Questions(<<ItemScenarioD>>)), TokWs, TokProse>>),
      PyText(<<TokProse, TokLBrace, TokProse>>),
      PyText(<<TokRBrace, TokProse, TokLBrace>>),
      PyText(<<TokWs>>),
      PyText(<<TokJson(PyNum(420))>>),
      PyText(<<TokJson(PyList(<<>>))>>),
      PyText(<<TokJson(PyDict([question_count |-> PyNum(0)]))>>),
      PyText(<<TokJson(PyDict([questions |-> StrStated]))>>),
      PyNone }

Body(json) == [kind |-> "body", body |-> <<TokJson(json)>>]

\* a response of the chat-completions endpoint with the content
OpenAIBody(content) ==
    Body(PyDict([choices |->
        PyList(<<PyDict([message |-> PyDict([content |-> content])])>>)]))

\* a response of generateContent with the text
GeminiBody(text) ==
    Body(PyDict([candidates |->
        PyList(<<PyDict([content |->
            PyDict([parts |-> PyList(<<PyDict([text |-> text])>>)])])>>)]))

\* the failures of the transport and of the decoding of the body
TransportReplies ==
    {[kind |-> k, body |-> <<>>] :
        k \in {"URLError", "HTTPError", "TimeoutError", "UnicodeDecodeError"}}

\* a body that is no JSON: an error page
PageReply == [kind |-> "body", body |-> <<TokProse>>]

\* a body that is a JSON list, not an object
ListReply == Body(PyList(<<>>))

OpenAIReplies ==
    TransportReplies
    \cup {PageReply, ListReply,
          Body(PyDict([choices |-> PyList(<<>>)])),
          Body(PyDict([error |-> StrStated]))}
    \cup {OpenAIBody(c) : c \in Contents}

GeminiReplies ==
    TransportReplies
    \cup {PageReply, ListReply,
          Body(PyDict([candidates |-> PyList(<<>>)])),
          Body(PyDict([error |-> StrStated]))}
    \cup {GeminiBody(c) : c \in Contents}

\* the reply that is not awaited when no request is sent
NoReply == [kind |-> "none", body |-> <<>>]

\* ------------------------------------------------------------------------
\* llm_extract_and_analyze of src/llm_client.py: the model names
\* ------------------------------------------------------------------------

ModelsPrefix == <<"m","o","d","e","l","s","/">>

Gemini25 == <<"g","e","m","i","n","i","-","2",".","5","-","f","l","a","s","h">>
Gemini20 == <<"g","e","m","i","n","i","-","2",".","0","-","f","l","a","s","h">>

\* "if model_name.startswith("models/"): model_name = model_name[len("models/"):]"
StripModelsPrefix(name) ==
    IF StartsWith(name, ModelsPrefix)
    THEN SubSeq(name, Len(ModelsPrefix) + 1, Len(name))
    ELSE name

\* a slip: the fallback is tried even when it is the primary model
TryFallback_same(result, model_name, fallback_model) ==
    result.out = "none" /\ fallback_model # <<>>

\* after the primary attempt: "if result is not None: return result" and
\* "if fallback_model and fallback_model != model_name"
TryFallback(result, model_name, fallback_model) ==
    result.out = "none" /\ fallback_model # <<>> /\ fallback_model # model_name

\* the values of GEMINI_MODEL and GEMINI_FALLBACK_MODEL
PrimaryNames  == {Gemini25, ModelsPrefix \o Gemini25, Gemini20}
FallbackNames == {Gemini20, ModelsPrefix \o Gemini20, Gemini25, ModelsPrefix, <<>>}

\* ------------------------------------------------------------------------
\* State
\* ------------------------------------------------------------------------

\* the upload requests that can be in flight together
MaxReqs == 2
Reqs == 1..MaxReqs

VARIABLES
    config,   \* the environment read at import: the keys and the model names
    files,    \* the temp files of the working directory: path -> contents, owner
    pc,       \* pc[r]: "idle", "reading" (at await file.read()), "done"
    upload,   \* upload[r]: the file name and the bytes of the request
    resp,     \* resp[r]: the response of the request
    obs,      \* obs[r]: what the handler of r did (adapter outcome, exit, ...)
    cpc,      \* the call of llm_client.llm_extract_and_analyze: where it is
    sent,     \* the model names of the requests it sent, in order
    cfirst,   \* the outcome of its primary attempt
    cres,     \* its outcome
    cq,       \* the question given to analyze_requirement
    cverdict  \* what it returned: none yet, or the dicts of app.py and analysis.py

vars == <<config, files, pc, upload, resp, obs, cpc, sent, cfirst, cres, cq, cverdict>>

uploadVars == <<files, pc, upload, resp, obs>>
clientVars == <<cpc, sent, cfirst, cres>>

NoUpload   == [filename |-> <<>>, contents |-> DocBroken]
NoResponse == ErrorResponse(0, "", "")
NoObs      == [adapter |-> NotCalled, reply |-> NoReply, exit |-> "",
               extractor |-> FALSE, classified |-> <<>>, others |-> {}]

DefaultConfig ==
    [openai_key |-> FALSE, gemini_key |-> FALSE,
     model |-> Gemini25, fallback |-> Gemini20]

UploadIdle ==
    /\ files = <<>>
    /\ pc = [r \in Reqs |-> "idle"]
    /\ upload = [r \in Reqs |-> NoUpload]
    /\ resp = [r \in Reqs |-> NoResponse]
    /\ obs = [r \in Reqs |-> NoObs]

ClientIdle ==
    /\ cpc = "idle"
    /\ sent = <<>>
    /\ cfirst = NotCalled
    /\ cres = NotCalled

classVars == <<cq, cverdict>>

ClassIdle ==
    /\ cq = <<>>
    /\ cverdict = <<>>

\* the server after start: OPENAI_API_KEY is set or not
Init ==
    /\ \E k \in BOOLEAN : config = [DefaultConfig EXCEPT !.openai_key = k]
    /\ UploadIdle
    /\ ClientIdle
    /\ ClassIdle

\* ------------------------------------------------------------------------
\* The upload handler
\* ------------------------------------------------------------------------

\* a request arrives with a name that does not end in ".pdf": 400, raised
\* before the try block
Reject(r, names, docs) ==
    /\ pc[r] = "idle"
    /\ \E n \in names, d \in docs :
          /\ ~IsPdfName(n)
          /\ upload' = [upload EXCEPT ![r] = [filename |-> n, contents |-> d]]
    /\ pc' = [pc EXCEPT ![r] = "done"]
    /\ resp' = [resp EXCEPT ![r] = ErrorResponse(400, NotPdfDetail, "")]
    /\ obs' = [obs EXCEPT ![r] = [NoObs EXCEPT !.exit = "rejected"]]
    /\ UNCHANGED <<config, files, clientVars, classVars>>

\* a request arrives with a ".pdf" name and waits at "await file.read()"
Submit(r, names, docs) ==
    /\ pc[r] = "idle"
    /\ \E n \in names, d \in docs :
          /\ IsPdfName(n)
          /\ upload' = [upload EXCEPT ![r] = [filename |-> n, contents |-> d]]
    /\ pc' = [pc EXCEPT ![r] = "reading"]
    /\ UNCHANGED <<config, files, resp, obs, clientVars, classVars>>

\* The rest of the handler.  It has no other await: from the write of the
\* temp file to the response it runs without another request running, the
\* blocking call to the backend included.  The reply is the one to the
\* request of the adapter, NoReply when it sends none.
Handle(r, replies) ==
    /\ pc[r] = "reading"
    /\ \E reply \in replies \cup {NoReply} :
       \E h \in {HandleUpload(files, r, upload[r], config.openai_key, reply)} :
          /\ reply # NoReply <=> (config.openai_key /\ h.adapter.out # "not_called")
          /\ files' = h.files
          /\ resp' = [resp EXCEPT ![r] = h.resp]
          /\ obs' = [obs EXCEPT ![r] =
                       [adapter |-> h.adapter, reply |-> reply, exit |-> h.exit,
                        extractor |-> h.extractor, classified |-> h.classified,
                        others |-> {q \in Reqs : pc[q] = "reading" /\ q # r}]]
    /\ pc' = [pc EXCEPT ![r] = "done"]
    /\ UNCHANGED <<config, upload, clientVars, classVars>>

\* the response is delivered; the next request can arrive
Close(r) ==
    /\ pc[r] = "done"
    /\ pc' = [pc EXCEPT ![r] = "idle"]
    /\ upload' = [upload EXCEPT ![r] = NoUpload]
    /\ resp' = [resp EXCEPT ![r] = NoResponse]
    /\ obs' = [obs EXCEPT ![r] = NoObs]
    /\ UNCHANGED <<config, files, clientVars, classVars>>

\* the first request slot
First == CHOOSE r \in Reqs : \A q \in Reqs : r <= q

\* Uploads one after another, over all the inputs
Next ==
    \/ Reject(First, Filenames, Documents)
    \/ Submit(First, Filenames, Documents)
    \/ Handle(First, OpenAIReplies)
    \/ Close(First)

Spec == Init /\ [][Next]_vars

\* Uploads in flight together, over a few inputs; every request slot is
\* used once
NamesFew   == {NameA, NameB}
\* "Is it logged?"
TextShort  == <<"I","s"," ","i","t"," ","l","o","g","g","e","d","?">>
DocShort   == [pdf |-> TRUE, pages |-> <<PyStr(TextShort)>>]
DocsFew    == {DocBroken, DocShort}
RepliesFew == {PageReply, ListReply, OpenAIBody(PyText(<<TokJson(Questions(<<ItemScenarioD>>))>>))}

NextConc ==
    \E r \in Reqs :
        \/ Submit(r, NamesFew, DocsFew)
        \/ Handle(r, RepliesFew)

SpecConc == Init /\ [][NextConc]_vars

\* ------------------------------------------------------------------------
\* llm_extract_and_analyze of src/llm_client.py
\* ------------------------------------------------------------------------

\* the process after start, for the Gemini adapter: GEMINI_API_KEY is set
\* or not, the two model names are any of the values above
ClientInit ==
    /\ \E k \in BOOLEAN, m \in PrimaryNames, f \in FallbackNames :
          config = [openai_key |-> FALSE, gemini_key |-> k, model |-> m, fallback |-> f]
    /\ UploadIdle
    /\ ClientIdle
    /\ ClassIdle

\* the call without a key: "if not GEMINI_API_KEY: return None"
ClientNoKey ==
    /\ cpc = "idle"
    /\ ~config.gemini_key
    /\ cpc' = "returned"
    /\ cres' = Unavailable
    /\ UNCHANGED <<config, uploadVars, classVars, sent, cfirst>>

\* the call with a key reaches the primary attempt
ClientStart ==
    /\ cpc = "idle"
    /\ config.gemini_key
    /\ cpc' = "primary"
    /\ UNCHANGED <<config, uploadVars, classVars, sent, cfirst, cres>>

\* result = _call_gemini(prompt, model_name), and what follows it: the
\* result is returned, the exception escapes, or the fallback is tried
ClientPrimary ==
    /\ cpc = "primary"
    /\ sent' = Append(sent, StripModelsPrefix(config.model))
    /\ \E reply \in GeminiReplies :
       \E result \in {call_gemini(reply)} :
          /\ cfirst' = result
          /\ IF TryFallback(result, StripModelsPrefix(config.model),
                            StripModelsPrefix(config.fallback))
             THEN cpc' = "fallback" /\ cres' = cres
             ELSE cpc' = "returned" /\ cres' = result
    /\ UNCHANGED <<config, uploadVars, classVars>>

\* return _call_gemini(prompt, fallback_model)
ClientFallback ==
    /\ cpc = "fallback"
    /\ sent' = Append(sent, StripModelsPrefix(config.fallback))
    /\ \E reply \in GeminiReplies : cres' = call_gemini(reply)
    /\ cpc' = "returned"
    /\ UNCHANGED <<config, uploadVars, classVars, cfirst>>

\* the caller has the result; the next call can start
ClientReset ==
    /\ cpc = "returned"
    /\ cpc' = "idle"
    /\ sent' = <<>>
    /\ cfirst' = NotCalled
    /\ cres' = NotCalled
    /\ UNCHANGED <<config, uploadVars, classVars>>

ClientNext ==
    \/ ClientNoKey
    \/ ClientStart
    \/ ClientPrimary
    \/ ClientFallback
    \/ ClientReset

SpecClient == ClientInit /\ [][ClientNext]_vars

\* ------------------------------------------------------------------------
\* analyze_requirement on its own
\* ------------------------------------------------------------------------

MaxWordLen == 5

\* the letters of the shortest keywords, "no" and "yes"
WordChars == {"n", "o", "y", "e", "s"}

\* every string of these letters up to MaxWordLen
Words == UNION {[1..n -> WordChars] : n \in 0..MaxWordLen}

\* "Is it Implemented?", "Is the system non-compliant?", "Do you KNOW?",
\* "Does it lack logs?", "It fails and Meets?"
SampleQuestions ==
    { <<"I","s"," ","i","t"," ","I","m","p","l","e","m","e","n","t","e","d","?">>,
      <<"I","s"," ","t","h","e"," ","s","y","s","t","e","m"," ",
        "n","o","n","-","c","o","m","p","l","i","a","n","t","?">>,
      <<"D","o"," ","y","o","u"," ","K","N","O","W","?">>,
      <<"D","o","e","s"," ","i","t"," ","l","a","c","k"," ","l","o","g","s","?">>,
      <<"I","t"," ","f","a","i","l","s"," ","a","n","d"," ","M","e","e","t","s","?">>,
      TextShort, QLogged, QBackup }

ClassifierQuestions == Words \cup SampleQuestions

ClassifyInit ==
    /\ config = DefaultConfig
    /\ UploadIdle
    /\ ClientIdle
    /\ cq \in ClassifierQuestions
    /\ cverdict = <<>>

\* the dicts the two analyze_requirement return for the question
Verdicts(question) ==
    <<[app |-> analyze_requirement(question),
       lib |-> analysis_analyze_requirement(question)]>>

\* the first call on the question
Classify ==
    /\ cverdict = <<>>
    /\ cverdict' = Verdicts(cq)
    /\ UNCHANGED <<config, uploadVars, clientVars, cq>>

\* a later call on the same question
ClassifyAgain ==
    /\ cverdict # <<>>
    /\ cverdict' = Verdicts(cq)
    /\ UNCHANGED <<config, uploadVars, clientVars, cq>>

ClassifyNext == Classify \/ ClassifyAgain

SpecClassify == ClassifyInit /\ [][ClassifyNext]_vars

\* ------------------------------------------------------------------------
\* Properties
\* ------------------------------------------------------------------------

Done(r) == pc[r] = "done"

Succeeded(r) == Done(r) /\ resp[r].status = 200

\* the text pdfplumber extracts from the upload of r
TextOf(r) == ExtractText(upload[r].contents.pages)

\* C1: the LLM backend adapter never lets an exception escape to its
\* caller: whatever the outbound call or the handling of the response does,
\* the call ends with a list or with None, in the Gemini adapter (primary
\* and fallback attempt) and in the adapter of app.py
C1_AdapterNeverRaises ==
    /\ cfirst.out # "raise"
    /\ cres.out # "raise"
    /\ \A r \in Reqs : obs[r].adapter.out # "raise"

\* C2: an upload named *.pdf whose text is empty or in which no question
\* is found ends with status 400 and the explanatory message
C2_UserErrorsAre400 ==
    \A r \in Reqs :
        (Done(r) /\ obs[r].exit \in {"no_text", "no_questions"}) =>
            /\ resp[r].status = 400
            /\ resp[r].detail \in {NoTextDetail, NoQuestionsDetail}

\* the replies of a configured backend that are malformed JSON: a body
\* that is no JSON, a content that holds no JSON object
MalformedReplies ==
    { PageReply,
      OpenAIBody(PyText(<<TokProse, TokLBrace, TokProse>>)),
      OpenAIBody(PyText(<<TokRBrace, TokProse, TokLBrace>>)) }

\* the record comes from the item: the item is a dict whose "question" is
\* a string that strips to the question of the record
FromItem(record, item) ==
    /\ item.t = "dict"
    /\ "question" \in DOMAIN item.v
    /\ item.v["question"].t = "str"
    /\ Strip(item.v["question"].v) = record.question

\* C3: the extractor and the classifier run if and only if the adapter
\* returned None; then the classifier runs on each extracted question.  A
\* configured backend that replies malformed JSON ends in success when the
\* extractor finds questions.  When the adapter returned a list, even an
\* empty one, neither runs and every record of the response comes from an
\* item of the list.
C3_HeuristicIffUnavailable ==
    \A r \in Reqs :
        Done(r) =>
            /\ obs[r].extractor <=> obs[r].adapter.out = "none"
            /\ obs[r].classified # <<>> => obs[r].adapter.out = "none"
            /\ (obs[r].adapter.out = "none" /\ obs[r].exit = "returned") =>
                  /\ obs[r].classified = extract_questions_from_text(TextOf(r))
                  /\ resp[r].questions = HeuristicResults(obs[r].classified)
            /\ (/\ config.openai_key
                /\ obs[r].reply \in MalformedReplies
                /\ extract_questions_from_text(TextOf(r)) # <<>>) =>
                  /\ obs[r].adapter.out = "none"
                  /\ resp[r].status = 200
            /\ obs[r].adapter.out = "list" =>
                  /\ ~obs[r].extractor
                  /\ obs[r].classified = <<>>
                  /\ \A i \in DOMAIN resp[r].questions :
                        \E k \in DOMAIN obs[r].adapter.items :
                            FromItem(resp[r].questions[i], obs[r].adapter.items[k])

\* a configured backend replied malformed JSON and the request succeeded
\* with the questions of the extractor
C3_Witness ==
    \E r \in Reqs :
        /\ Succeeded(r)
        /\ config.openai_key
        /\ obs[r].reply \in MalformedReplies
        /\ obs[r].extractor
        /\ resp[r].total_questions > 0

\* C4: a call of llm_extract_and_analyze (llm_client) sends no request
\* without a key and returns None; with a key its first request goes to
\* the primary model; a second one goes to the fallback model, and only
\* when the primary attempt gave None and the fallback name is not empty
\* and is not the primary name; there is no third request; a primary
\* result that is not None is the result of the call, with one request sent
C4_RequestSequence ==
    /\ ~config.gemini_key => (sent = <<>> /\ (cpc = "returned" => cres = Unavailable))
    /\ Len(sent) <= 2
    /\ (config.gemini_key /\ cpc = "returned") => Len(sent) >= 1
    /\ Len(sent) >= 1 => sent[1] = StripModelsPrefix(config.model)
    /\ Len(sent) = 2 =>
          /\ cfirst.out = "none"
          /\ sent[2] = StripModelsPrefix(config.fallback)
          /\ sent[2] # <<>>
          /\ sent[2] # sent[1]
          /\ config.fallback # <<>>
          /\ config.fallback # config.model
    /\ (cpc = "returned" /\ cfirst.out \in {"list", "raise"}) =>
          (Len(sent) = 1 /\ cres = cfirst)

\* the call returned after a request to the primary and one to the fallback
C4_Witness == cpc = "returned" /\ Len(sent) = 2 /\ cfirst.out = "none"

\* C5: a request never succeeds with an empty result: every successful
\* response has total_questions >= 1
C5_SuccessHasQuestions ==
    \A r \in Reqs : Succeeded(r) => resp[r].total_questions >= 1

\* C6: the temp file of a request is released on every exit path: when no
\* request is being handled, no temp file remains
C6_NoTempFileRemains == DOMAIN files = {}

\* the items of the adapter that give a record, in order
GivesRecord(item) ==
    /\ item.t = "dict"
    /\ "question" \in DOMAIN item.v
    /\ item.v["question"].t = "str"
    /\ Strip(item.v["question"].v) # <<>>

KeptItems(items) == SelectSeq(items, GivesRecord)

\* C7: on the LLM path the requirement_met of every record of the response
\* is the normalized tri-state of the raw fields of its item: the raw
\* requirement_met when it normalizes to a boolean, else the normalized
\* answer, else unknown
C7_RequirementMetNormalized ==
    \A r \in Reqs :
        (Succeeded(r) /\ obs[r].adapter.out = "list") =>
            /\ Len(resp[r].questions) = Len(KeptItems(obs[r].adapter.items))
            /\ \A i \in DOMAIN resp[r].questions :
                  resp[r].questions[i].requirement_met =
                      derive_requirement_met(
                          Get(KeptItems(obs[r].adapter.items)[i], "answer", PyNone),
                          Get(KeptItems(obs[r].adapter.items)[i], "requirement_met", PyNone))

\* the indexes of the records whose requirement_met is the value v
Having(questions, v) ==
    {i \in DOMAIN questions : questions[i].requirement_met = v}

\* C8: in every successful response, on either path, total_questions is
\* the number of records, met_count the number of records whose
\* requirement_met is true, not_met_count the number whose requirement_met
\* is false, and the records that are unknown are in neither count
C8_Counts ==
    \A r \in Reqs :
        Succeeded(r) =>
            /\ resp[r].total_questions = Len(resp[r].questions)
            /\ resp[r].met_count = Cardinality(Having(resp[r].questions, PyTrue))
            /\ resp[r].not_met_count = Cardinality(Having(resp[r].questions, PyFalse))
            /\ resp[r].met_count + resp[r].not_met_count
                  = resp[r].total_questions
                      - Cardinality(Having(resp[r].questions, PyNone))

\* a successful response that holds a met, a not met and an unknown record
C8_Witness ==
    \E r \in Reqs :
        /\ Succeeded(r)
        /\ resp[r].met_count >= 1
        /\ resp[r].not_met_count >= 1
        /\ resp[r].total_questions > resp[r].met_count + resp[r].not_met_count

Trimmed(questions) ==
    \A i \in DOMAIN questions : Strip(questions[i].question) = questions[i].question

Distinct(questions) ==
    \A i, j \in DOMAIN questions :
        questions[i].question = questions[j].question => i = j

\* the candidates of the three pattern families, in order, stripped
StrippedCandidates(text) ==
    [k \in DOMAIN Candidates(text, Len(Patterns)) |->
        Strip(Candidates(text, Len(Patterns))[k])]

FirstIndex(cands, q) == MinOr({k \in DOMAIN cands : cands[k] = q}, 0)

\* the questions are the stripped candidates longer than MinQuestionLen,
\* each once, in the order of their first occurrence
FirstOccurrences(questions, cands) ==
    /\ \A i \in DOMAIN questions :
          /\ Len(questions[i].question) > MinQuestionLen
          /\ FirstIndex(cands, questions[i].question) > 0
    /\ \A k \in DOMAIN cands :
          Len(cands[k]) > MinQuestionLen =>
              \E i \in DOMAIN questions : questions[i].question = cands[k]
    /\ \A i, j \in DOMAIN questions :
          i < j => FirstIndex(cands, questions[i].question)
                      < FirstIndex(cands, questions[j].question)

\* C9: within one analysis run, on both paths, every question of the
\* response is trimmed and no two records have equal questions; on the
\* heuristic path every question is longer than 10 characters and of equal
\* candidates the first occurrence is kept
C9_TrimmedAndDistinct ==
    \A r \in Reqs :
        Succeeded(r) =>
            /\ Trimmed(resp[r].questions)
            /\ Distinct(resp[r].questions)
            /\ obs[r].adapter.out = "none" =>
                  FirstOccurrences(resp[r].questions, StrippedCandidates(TextOf(r)))

\* C9, as the code has it: every question of the response is trimmed on
\* both paths; on the heuristic path no two records have equal questions,
\* every question is longer than 10 characters and of equal candidates the
\* first occurrence is kept; the LLM path keeps the equal questions of the
\* adapter
C9_TrimmedHeuristicDistinct ==
    \A r \in Reqs :
        Succeeded(r) =>
            /\ Trimmed(resp[r].questions)
            /\ obs[r].adapter.out = "none" =>
                  /\ Distinct(resp[r].questions)
                  /\ FirstOccurrences(resp[r].questions, StrippedCandidates(TextOf(r)))

\* a heuristic run in which a candidate occurred twice and was kept once
C9_Witness ==
    \E r \in Reqs :
        /\ Succeeded(r)
        /\ obs[r].adapter.out = "none"
        /\ \E j, k \in DOMAIN StrippedCandidates(TextOf(r)) :
              /\ j # k
              /\ StrippedCandidates(TextOf(r))[j] = StrippedCandidates(TextOf(r))[k]
              /\ Len(StrippedCandidates(TextOf(r))[j]) > MinQuestionLen

\* what the handler of r gives when no other request exists: its upload,
\* its reply and the key, in a working directory without files
Alone(r) == HandleUpload(<<>>, r, upload[r], config.openai_key, obs[r].reply)

\* the paths whose file a step creates, removes or rewrites
Touched ==
    {p \in DOMAIN files \cup DOMAIN files' :
        \/ p \notin DOMAIN files
        \/ p \notin DOMAIN files'
        \/ files'[p] # files[p]}

\* a step touches the temp path of the request whose handler runs in it
\* and no other, and a file it finds there is of a request that is over
OwnFileOnly ==
    \A p \in Touched :
        \E r \in Reqs :
            /\ pc[r] = "reading"
            /\ pc'[r] = "done"
            /\ p = TempPath(upload[r].filename)
            /\ p \in DOMAIN files => pc[files[p].owner] = "done"

\* the response, the adapter outcome and the exit of every finished
\* request are those of its handler run alone
OwnOutcome ==
    \A r \in Reqs :
        Done(r) =>
            \E alone \in {Alone(r)} :
                /\ resp[r] = alone.resp
                /\ obs[r].adapter = alone.adapter
                /\ obs[r].exit = alone.exit

\* C10: requests that overlap share no mutable state: each has its own
\* temp file, extracted text, adapter call and result, so the outcome of a
\* request is the one its handler gives alone, and the handler of a
\* request touches no file of a request that is still being handled
C10_Isolation == []OwnOutcome /\ [][OwnFileOnly]_vars

\* two requests with the same filename and different documents overlapped;
\* the first left its temp file behind, the second succeeded
C10_Witness ==
    \E r, q \in Reqs :
        /\ r # q
        /\ Done(r) /\ Done(q)
        /\ upload[r].filename = upload[q].filename
        /\ upload[r].contents # upload[q].contents
        /\ q \in obs[r].others
        /\ obs[r].exit = "open_failed"
        /\ resp[q].status = 200

\* C11: when a record is built from an adapter item, a confidence that is
\* missing, null, no number or of a wrong type becomes the default 0.3 and
\* does not fail the request; a confidence that coerces to a number (0.8,
\* "0.9") is that number
C11_ConfidenceCoerced ==
    \A r \in Reqs :
        (Done(r) /\ obs[r].adapter.out = "list") =>
            /\ ~(obs[r].exit = "build_failed" /\ resp[r].cause \in {"TypeError", "ValueError"})
            /\ Succeeded(r) =>
                  \A i \in DOMAIN resp[r].questions :
                      i \in DOMAIN KeptItems(obs[r].adapter.items) =>
                          resp[r].questions[i].confidence =
                              parse_confidence(
                                  Get(KeptItems(obs[r].adapter.items)[i], "confidence", PyNone),
                                  DefaultConfidence).v

\* the decision table with the negative keywords first
Table(has_positive, has_negative) ==
    IF has_negative
    THEN [requirement_met |-> PyFalse, confidence |-> 7, reasoning |-> ReasonNegative]
    ELSE IF has_positive
    THEN [requirement_met |-> PyTrue, confidence |-> 7, reasoning |-> ReasonPositive]
    ELSE [requirement_met |-> PyNone, confidence |-> 3, reasoning |-> ReasonUnknown]

HasPositive(question) == AnyKeyword(Lower(question), positive_keywords)
HasNegative(question) == AnyKeyword(Lower(question), negative_keywords)

\* what analyze_requirement returned is the row of the table: the dict of
\* app.py has these three keys and no answer or evidence, the dict of
\* analysis.py has them and None for answer and evidence; the reasoning is
\* not empty
FollowsTable ==
    \A i \in DOMAIN cverdict :
        /\ cverdict[i].app = Table(HasPositive(cq), HasNegative(cq))
        /\ cverdict[i].lib = WithoutAnswer(Table(HasPositive(cq), HasNegative(cq)))
        /\ cverdict[i].app.reasoning \notin {PyLit(""), PyNone}
        /\ DOMAIN cverdict[i].app \cap {"answer", "evidence"} = {}

\* a later call on the same question returns what the first returned
SameAgain == (cverdict # <<>> /\ cq' = cq) => cverdict' = cverdict

\* C12: analyze_requirement is a deterministic function of the question
\* and follows the decision table with negative precedence: a negative
\* keyword in the lower-cased question gives not met with confidence 0.7,
\* also when a positive keyword is there; else a positive keyword gives met
\* with confidence 0.7; else unknown with confidence 0.3; the reasoning is
\* the fixed, non-empty message of the branch; answer and evidence are absent
C12_DecisionTable == []FollowsTable /\ [][SameAgain]_vars

\* a question with a positive and a negative keyword was classified not met
C12_Witness ==
    /\ cverdict # <<>>
    /\ HasPositive(cq)
    /\ HasNegative(cq)
    /\ cverdict[1].app.requirement_met = PyFalse

====
